---- MODULE Spec2Model ----
(***************************************************************************)
(* TRUtils: SparseMap (handle allocator), SlotMap (value store),           *)
(* TypeErasedVector (erased buffer) and Table, as state machines.          *)
(*                                                                         *)
(* The 32-bit Key::ID and Key::Version types are modelled at reduced       *)
(* width: IdMax and VersionMax play the part of                            *)
(* std::numeric_limits<uint32_t>::max() for the index and the version.     *)
(* C++ containers are 0-based; sequences here are 1-based, and At / Put    *)
(* do the shift.                                                           *)
(***************************************************************************)
EXTENDS Integers, Sequences, FiniteSets, TLC

\* ------------------------------------------------------------------ bounds

\* Largest value of Key::ID in the model (numeric_limits<ID>::max()).
IdMax == 5

\* Largest value of Key::Version in the model (numeric_limits<Version>::max()).
VersionMax == 2

\* Most elements a TypeErasedVector used beside others is grown to.
MaxCount == 2

\* Most elements a TypeErasedVector used on its own is grown to.
MaxSoloCount == 3

\* Width of size_t in the model, standing for 64.
SizeBits == 7

\* Most rows and most columns created in a Table over a run.
MaxRowsMade == 2

MaxColsMade == 2

\* Most blocks a StackAlloc is let grow to, and most checkpoints open at once.
MaxBlocks == 3

MaxCheckpoints == 2

\* Values stored in a SlotMap and in the cells of a row.
Values == {"a", "b"}

\* ------------------------------------------------------------ Key constants

DISABLED_VERSION == VersionMax

INVALID_IDX == IdMax

FREELIST_END_IDX == IdMax - 1

SPARSE_MAX_IDX == IdMax - 2

\* A default-constructed Key: id {INVALID_IDX}, version {0}.
DefaultKey == [id |-> INVALID_IDX, version |-> 0]

\* Every key a caller can hold: Key's fields are private, so a key is the
\* default one or one some SparseMap returned, and insert never returns a
\* slot whose version is DISABLED_VERSION.
Keys == [id : 0..IdMax, version : 0..(VersionMax - 1)]

\* ---------------------------------------------------------------- helpers

At(s, i) == s[i + 1]

Put(s, i, v) == [s EXCEPT ![i + 1] = v]

PopBack(s) == SubSeq(s, 1, Len(s) - 1)

Back(s) == s[Len(s)]

\* A slip of the increment: the version goes up by two.
VersionIncTwo(v) == (v + 2) % (VersionMax + 1)

\* Version += 1 on an unsigned integer of the model's width.
VersionInc(v) == (v + 1) % (VersionMax + 1)

\* -------------------------------------------------------------- SparseMap
\* A SparseMap is [dense, sparse, head]: mDense, mSparse, mFreelistHead.
\* A sparse entry is [denseIdx, version]; denseIdx doubles as freelistNext.

EmptySparseMap == [dense |-> << >>, sparse |-> << >>, head |-> FREELIST_END_IDX]

contains(m, key) ==
    /\ key.id < Len(m.sparse)
    /\ At(m.sparse, key.id).version = key.version

get(m, key) ==
    IF ~contains(m, key) THEN INVALID_IDX ELSE At(m.sparse, key.id).denseIdx

size(m) == Len(m.dense)

freelistNext(m, freelistIdx) ==
    IF freelistIdx # FREELIST_END_IDX
    THEN At(m.sparse, freelistIdx).denseIdx
    ELSE FREELIST_END_IDX

\* [m, idx]: the map after the pop and the index popped (INVALID_IDX if none).
freelistPop(m) ==
    IF m.head = FREELIST_END_IDX
    THEN [m |-> m, idx |-> INVALID_IDX]
    ELSE [m |-> [m EXCEPT !.head = freelistNext(m, m.head)], idx |-> m.head]

\* A slip of freelistPush: the link to the old head is not written.
freelistPushNoLink(m, sparseIdx) ==
    [m EXCEPT !.head = sparseIdx]

\* A slip of freelistPush: the slot is linked in behind the head.
freelistPushBehind(m, sparseIdx) ==
    IF m.head = FREELIST_END_IDX
    THEN [m EXCEPT !.head = sparseIdx,
                   !.sparse = Put(m.sparse, sparseIdx,
                                  [At(m.sparse, sparseIdx) EXCEPT !.denseIdx = m.head])]
    ELSE [m EXCEPT !.sparse =
             Put(Put(m.sparse, sparseIdx,
                     [At(m.sparse, sparseIdx) EXCEPT !.denseIdx = freelistNext(m, m.head)]),
                 m.head, [At(m.sparse, m.head) EXCEPT !.denseIdx = sparseIdx])]

freelistPush(m, sparseIdx) ==
    [m EXCEPT !.head = sparseIdx,
              !.sparse = Put(m.sparse, sparseIdx,
                             [At(m.sparse, sparseIdx) EXCEPT !.denseIdx = m.head])]

\* A slip of allocateSparseEntry: a reused slot keeps its free-list link in
\* place of the dense index.
allocateSparseEntryKeepLink(m, denseIdx) ==
    LET p == freelistPop(m) IN
    IF p.idx # INVALID_IDX
    THEN [m |-> p.m, idx |-> p.idx]
    ELSE IF Len(m.sparse) = SPARSE_MAX_IDX
         THEN [m |-> m, idx |-> INVALID_IDX]
         ELSE [m |-> [m EXCEPT !.sparse =
                          Append(m.sparse, [denseIdx |-> denseIdx, version |-> 0])],
               idx |-> Len(m.sparse)]

\* A slip of allocateSparseEntry: the sparse array is let grow one entry
\* beyond SPARSE_MAX_IDX.
allocateSparseEntryOneMore(m, denseIdx) ==
    LET p == freelistPop(m) IN
    IF p.idx # INVALID_IDX
    THEN [m |-> [p.m EXCEPT !.sparse =
                     Put(p.m.sparse, p.idx,
                         [At(p.m.sparse, p.idx) EXCEPT !.denseIdx = denseIdx])],
          idx |-> p.idx]
    ELSE IF Len(m.sparse) = SPARSE_MAX_IDX + 1
         THEN [m |-> m, idx |-> INVALID_IDX]
         ELSE [m |-> [m EXCEPT !.sparse =
                          Append(m.sparse, [denseIdx |-> denseIdx, version |-> 0])],
               idx |-> Len(m.sparse)]

\* [m, idx]: idx is INVALID_IDX when the sparse array is full.
allocateSparseEntry(m, denseIdx) ==
    LET p == freelistPop(m) IN
    IF p.idx # INVALID_IDX
    THEN [m |-> [p.m EXCEPT !.sparse =
                     Put(p.m.sparse, p.idx,
                         [At(p.m.sparse, p.idx) EXCEPT !.denseIdx = denseIdx])],
          idx |-> p.idx]
    ELSE IF Len(m.sparse) = SPARSE_MAX_IDX
         THEN [m |-> m, idx |-> INVALID_IDX]
         ELSE [m |-> [m EXCEPT !.sparse =
                          Append(m.sparse, [denseIdx |-> denseIdx, version |-> 0])],
               idx |-> Len(m.sparse)]

\* A slip of freeSparseEntry: the slot is recycled whatever its version.
freeSparseEntryAlways(m, sparseIdx) ==
    LET e  == At(m.sparse, sparseIdx)
        m1 == [m EXCEPT !.sparse = Put(m.sparse, sparseIdx,
                   [denseIdx |-> INVALID_IDX, version |-> VersionInc(e.version)])]
    IN  freelistPush(m1, sparseIdx)

\* A slip of freeSparseEntry: the version is not incremented.
freeSparseEntryNoBump(m, sparseIdx) ==
    LET e  == At(m.sparse, sparseIdx)
        m1 == [m EXCEPT !.sparse = Put(m.sparse, sparseIdx,
                   [denseIdx |-> INVALID_IDX, version |-> e.version])]
    IN  freelistPush(m1, sparseIdx)

freeSparseEntry(m, sparseIdx) ==
    LET e  == At(m.sparse, sparseIdx)
        m1 == [m EXCEPT !.sparse = Put(m.sparse, sparseIdx,
                   [denseIdx |-> INVALID_IDX, version |-> VersionInc(e.version)])]
    IN  IF At(m1.sparse, sparseIdx).version # DISABLED_VERSION
        THEN freelistPush(m1, sparseIdx)
        ELSE m1

\* [m, ok, key]: ok is FALSE when insert throws (the map is then unchanged).
insert(m) ==
    LET denseIdx == Len(m.dense)
        a        == allocateSparseEntry(m, denseIdx)
    IN  IF a.idx = INVALID_IDX
        THEN [m |-> m, ok |-> FALSE, key |-> DefaultKey]
        ELSE [m   |-> [a.m EXCEPT !.dense = Append(a.m.dense, a.idx)],
              ok  |-> TRUE,
              key |-> [id |-> a.idx, version |-> At(a.m.sparse, a.idx).version]]

\* A slip of erase: the sparse entry of the element swapped into the vacated
\* dense position is not updated.
eraseNoFixup(m, key) ==
    IF ~contains(m, key) THEN [m |-> m, res |-> FALSE]
    ELSE
      LET denseIdx == At(m.sparse, key.id).denseIdx
          last     == Len(m.dense) - 1
          m1 == IF denseIdx # last
                THEN [m EXCEPT !.dense = PopBack(Put(m.dense, denseIdx, Back(m.dense)))]
                ELSE [m EXCEPT !.dense = PopBack(m.dense)]
      IN  [m |-> freeSparseEntry(m1, key.id), res |-> TRUE]

\* [m, res]: res is the bool erase returns.
erase(m, key) ==
    IF ~contains(m, key) THEN [m |-> m, res |-> FALSE]
    ELSE
      LET sparseIdxToUpdate == Back(m.dense)
          denseIdx          == At(m.sparse, key.id).denseIdx
          last              == Len(m.dense) - 1
          m1 == IF denseIdx # last
                THEN [m EXCEPT
                        !.dense  = PopBack(Put(Put(m.dense, denseIdx, Back(m.dense)),
                                               last, At(m.dense, denseIdx))),
                        !.sparse = Put(m.sparse, sparseIdxToUpdate,
                                       [At(m.sparse, sparseIdxToUpdate)
                                            EXCEPT !.denseIdx = denseIdx])]
                ELSE [m EXCEPT !.dense = PopBack(m.dense)]
      IN  [m |-> freeSparseEntry(m1, key.id), res |-> TRUE]

clear(m) == EmptySparseMap

\* The sparse indices on the free list, head first.  The walk stops after
\* Len(mSparse) + 1 links, so that a cyclic list shows as a list longer than
\* the sparse array instead of an endless walk.
RECURSIVE FreeListFrom(_, _, _)
FreeListFrom(m, idx, fuel) ==
    IF idx = FREELIST_END_IDX \/ fuel = 0 \/ idx >= Len(m.sparse)
    THEN << >>
    ELSE << idx >> \o FreeListFrom(m, freelistNext(m, idx), fuel - 1)

FreeList(m) == FreeListFrom(m, m.head, Len(m.sparse) + 1)

SeqSet(s) == {s[i] : i \in 1..Len(s)}

\* ---------------------------------------------------------------- SlotMap
\* A SlotMap is [mapping, storage]: mMapping (a SparseMap) and mStorage.

EmptySlotMap == [mapping |-> EmptySparseMap, storage |-> << >>]

\* [s, ok, key]: ok is FALSE when mMapping.insert() throws.
SlotMap_insert(s, value) ==
    LET r == insert(s.mapping) IN
    IF ~r.ok
    THEN [s |-> s, ok |-> FALSE, key |-> r.key]
    ELSE [s   |-> [mapping |-> r.m, storage |-> Append(s.storage, value)],
          ok  |-> TRUE,
          key |-> r.key]

SlotMap_contains(s, key) == contains(s.mapping, key)

\* The pointer get returns: nullptr, or the element it points at.
\* std::vector::at throws std::out_of_range beyond the end.
SlotMap_get(s, key) ==
    IF ~contains(s.mapping, key)
    THEN [kind |-> "nullptr"]
    ELSE LET idx == get(s.mapping, key) IN
         IF idx < Len(s.storage)
         THEN [kind |-> "value", pos |-> idx, val |-> At(s.storage, idx)]
         ELSE [kind |-> "out_of_range"]

\* [s, ok, val]: ok is FALSE when remove throws; val is the value returned.
SlotMap_remove(s, key) ==
    IF ~contains(s.mapping, key)
    THEN [s |-> s, ok |-> FALSE, val |-> "none"]
    ELSE
      LET storageIdx  == get(s.mapping, key)
          e           == erase(s.mapping, key)
          oldDataSize == Len(s.storage)
          swapped     == IF oldDataSize > 1
                         THEN Put(Put(s.storage, storageIdx, Back(s.storage)),
                                  oldDataSize - 1, At(s.storage, storageIdx))
                         ELSE s.storage
      IN  [s   |-> [mapping |-> e.m, storage |-> PopBack(swapped)],
           ok  |-> TRUE,
           val |-> Back(swapped)]

SlotMap_size(s) == Len(s.storage)

SlotMap_clear(s) == [mapping |-> clear(s.mapping), storage |-> << >>]

\* -------------------------------------------------------- TypeErasedVector
\* A TypeErasedVector is [typeID, buf, count, cap, data]: mTypeID, mDataBuf
\* (0 is nullptr, any other number an address), mElementCount,
\* mElementCapacity, and data, the elements at the positions below count.
\* The bytes at and beyond count are indeterminate and are not kept.

Types == {"u32", "u64"}

\* An address operator new can return: none of those in use.
NewAddr(used) == CHOOSE n \in 1..(Cardinality(used) + 1) : n \notin used

Vec_create(T) == [typeID |-> T, buf |-> 0, count |-> 0, cap |-> 0, data |-> << >>]

Vec_empty(v) == v.count = 0

Vec_size(v) == v.count

Vec_capacity(v) == v.cap

Vec_clear(v) == [v EXCEPT !.count = 0, !.data = << >>]

calculateCapacity(v) == IF v.cap = 0 THEN 1 ELSE v.cap * 2

shouldGrow(v) == v.count >= v.cap

\* addr is the address operator new returns if it is called.
Vec_reserve(v, newCap, addr) ==
    IF newCap <= v.cap THEN v
    ELSE [v EXCEPT !.buf = addr, !.cap = newCap]

\* x stands for the bytes found in the new last position.
Vec_push_back_uninit(v, addr, x) ==
    LET g == IF shouldGrow(v) THEN Vec_reserve(v, calculateCapacity(v), addr) ELSE v
    IN  [g EXCEPT !.count = g.count + 1, !.data = Append(g.data, x)]

\* [v, res]
Vec_pop_back(v) ==
    IF Vec_empty(v) THEN [v |-> v, res |-> "EmptyContainer"]
    ELSE [v |-> [v EXCEPT !.count = v.count - 1, !.data = PopBack(v.data)],
          res |-> "ok"]

\* A slip of swap_and_pop: the last element is dropped without the copy.
Vec_swap_and_popNoCopy(v, pos) ==
    IF Vec_empty(v) THEN [v |-> v, res |-> "EmptyContainer"]
    ELSE IF pos >= Vec_size(v) THEN [v |-> v, res |-> "OutOfBounds"]
    ELSE [v |-> [v EXCEPT !.count = v.count - 1, !.data = PopBack(v.data)],
          res |-> "ok"]

\* [v, res]
Vec_swap_and_pop(v, pos) ==
    IF Vec_empty(v) THEN [v |-> v, res |-> "EmptyContainer"]
    ELSE IF pos >= Vec_size(v) THEN [v |-> v, res |-> "OutOfBounds"]
    ELSE [v |-> [v EXCEPT !.count = v.count - 1,
                          !.data = PopBack(Put(v.data, pos, Back(v.data)))],
          res |-> "ok"]

\* at<T>(pos): [res, val]; the bounds are tested before the type.
Vec_at(v, T, pos) ==
    IF pos >= Vec_size(v) THEN [res |-> "OutOfBounds", val |-> "none"]
    ELSE IF T # v.typeID THEN [res |-> "TypeMismatch", val |-> "none"]
    ELSE [res |-> "value", val |-> At(v.data, pos)]

\* while (mElementCapacity < count) { reserve(calculateCapacity()); }
\* used are the addresses other vectors own; each reserve gets an address
\* that is neither one of those nor the buffer being replaced.
RECURSIVE GrowCapacity(_, _, _)
GrowCapacity(v, count, used) ==
    IF ~(v.cap < count) THEN v
    ELSE GrowCapacity(Vec_reserve(v, calculateCapacity(v), NewAddr(used \cup {v.buf})),
                      count, used)

\* A slip of resize: the count is raised without growing the capacity.
Vec_resizeNoGrow(v, count, used, xs) ==
    IF count = v.count THEN v
    ELSE IF count < v.count
    THEN [v EXCEPT !.count = count, !.data = SubSeq(v.data, 1, count)]
    ELSE [v EXCEPT !.count = count, !.data = v.data \o xs]

\* xs stands for the bytes found in the positions resize exposes.
Vec_resize(v, count, used, xs) ==
    IF count = v.count THEN v
    ELSE IF count < v.count
    THEN [v EXCEPT !.count = count, !.data = SubSeq(v.data, 1, count)]
    ELSE [GrowCapacity(v, count, used) EXCEPT !.count = count, !.data = v.data \o xs]

\* The same calls in the arithmetic of size_t, where a product or a
\* doubling wraps at SizeMod.  They agree with Vec_reserve and Vec_resize
\* as long as nothing wraps.
SizeMod == 2 ^ SizeBits

\* sizeof(T)
ElemSize(T) == IF T = "u32" THEN 4 ELSE 8

\* operator new(bytes, align) throws std::bad_alloc for a size above
\* PTRDIFF_MAX and returns a buffer otherwise, also for a size of 0.
PtrdiffMax == (SizeMod \div 2) - 1

OperatorNewFails(bytes) == bytes > PtrdiffMax

calculateCapacityWide(v) == IF v.cap = 0 THEN 1 ELSE (v.cap * 2) % SizeMod

\* [v, res]: reserve(newCap), newCap * mElementSize computed in size_t.
Vec_reserveWide(v, newCap, addr) ==
    IF newCap <= v.cap THEN [v |-> v, res |-> "ok"]
    ELSE IF OperatorNewFails((newCap * ElemSize(v.typeID)) % SizeMod)
    THEN [v |-> v, res |-> "bad_alloc"]
    ELSE [v |-> [v EXCEPT !.buf = addr, !.cap = newCap], res |-> "ok"]

\* while (mElementCapacity < count) { reserve(calculateCapacity()); }
\* [v, res]: res is "diverges" when a turn of the loop leaves the vector as
\* it found it with the condition still true, so that every later turn
\* does the same.
RECURSIVE GrowCapacityWide(_, _, _)
GrowCapacityWide(v, count, used) ==
    IF ~(v.cap < count) THEN [v |-> v, res |-> "ok"]
    ELSE LET r == Vec_reserveWide(v, calculateCapacityWide(v), NewAddr(used \cup {v.buf}))
         IN  IF r.res # "ok" THEN r
             ELSE IF r.v = v THEN [v |-> v, res |-> "diverges"]
             ELSE GrowCapacityWide(r.v, count, used)

\* [v, res]: resize(count); xs stands for the bytes in the positions exposed.
Vec_resizeWide(v, count, used, xs) ==
    IF count = v.count THEN [v |-> v, res |-> "ok"]
    ELSE IF count < v.count
    THEN [v |-> [v EXCEPT !.count = count, !.data = SubSeq(v.data, 1, count)],
          res |-> "ok"]
    ELSE LET g == GrowCapacityWide(v, count, used)
         IN  IF g.res # "ok" THEN g
             ELSE [v |-> [g.v EXCEPT !.count = count, !.data = v.data \o xs],
                   res |-> "ok"]

\* TypeErasedVector(const TypeErasedVector &other): operator new returns
\* addr, also for a size of 0; memcpy of 0 bytes copies nothing.
Vec_copy_construct(other, addr) ==
    [typeID |-> other.typeID, buf |-> addr, count |-> other.count,
     cap |-> other.cap, data |-> other.data]

\* TypeErasedVector(TypeErasedVector &&other): [this, other].
Vec_move_construct(other) ==
    [this  |-> other,
     other |-> [other EXCEPT !.buf = 0, !.cap = 0, !.count = 0, !.data = << >>]]

\* A slip of the copy assignment: the pointer is copied, not the bytes.
Vec_copy_assignShallow(this, other, addr) ==
    IF this.buf = other.buf THEN [this |-> this, other |-> other, res |-> "ok"]
    ELSE IF other.typeID # this.typeID
    THEN [this |-> this, other |-> other, res |-> "TypeMismatch"]
    ELSE [this  |-> [this EXCEPT !.buf = other.buf, !.count = other.count,
                                 !.cap = other.cap, !.data = other.data],
          other |-> other, res |-> "ok"]

\* operator=(const TypeErasedVector &other): [this, other, res].
Vec_copy_assign(this, other, addr) ==
    IF this.buf = other.buf THEN [this |-> this, other |-> other, res |-> "ok"]
    ELSE IF other.typeID # this.typeID
    THEN [this |-> this, other |-> other, res |-> "TypeMismatch"]
    ELSE [this  |-> [this EXCEPT !.buf = addr, !.count = other.count,
                                 !.cap = other.cap, !.data = other.data],
          other |-> other, res |-> "ok"]

\* operator=(TypeErasedVector &&other): [this, other, res].
Vec_move_assign(this, other) ==
    IF this.buf = other.buf THEN [this |-> this, other |-> other, res |-> "ok"]
    ELSE IF other.typeID # this.typeID
    THEN [this |-> this, other |-> other, res |-> "TypeMismatch"]
    ELSE [this  |-> [this EXCEPT !.buf = other.buf, !.count = other.count,
                                 !.cap = other.cap, !.data = other.data],
          other |-> [other EXCEPT !.buf = 0, !.cap = 0, !.count = 0, !.data = << >>],
          res   |-> "ok"]

\* ------------------------------------------------------------------ Table
\* A Table is [cols, rows]: mColumnMapping (a SparseMap) and mRows, a SlotMap
\* whose storage is a std::deque of TypeErasedVector.

\* std::swap(a, b) of two distinct TypeErasedVectors: tmp(std::move(a));
\* a = std::move(b); b = std::move(tmp).  [a, b, ok]: ok is FALSE when a
\* move assignment throws; tmp is then destroyed with what it holds.
std_swap(a, b) ==
    LET t  == Vec_move_construct(a)
        r1 == Vec_move_assign(t.other, b)
        r2 == Vec_move_assign(r1.other, t.this)
    IN  IF r1.res # "ok" THEN [a |-> t.other, b |-> b, ok |-> FALSE]
        ELSE IF r2.res # "ok" THEN [a |-> r1.this, b |-> r1.other, ok |-> FALSE]
        ELSE [a |-> r1.this, b |-> r2.this, ok |-> TRUE]

\* std::swap(x, x): the same three steps on one object.
std_swap_self(x) ==
    LET t  == Vec_move_construct(x)
        r1 == Vec_move_assign(t.other, t.other)
        r2 == Vec_move_assign(r1.this, t.this)
    IN  r2.this

\* SlotMap::remove with Value = TypeErasedVector: [s, res], res one of "ok",
\* "InvalidHandle" (remove throws at once), "TypeMismatch" (std::swap throws
\* after mMapping.erase).
Rows_remove(s, key) ==
    IF ~contains(s.mapping, key) THEN [s |-> s, res |-> "InvalidHandle"]
    ELSE
      LET storageIdx  == get(s.mapping, key)
          e           == erase(s.mapping, key)
          oldDataSize == Len(s.storage)
          lastIdx     == oldDataSize - 1
      IN  IF oldDataSize > 1 /\ storageIdx # lastIdx
          THEN LET sw == std_swap(At(s.storage, storageIdx), At(s.storage, lastIdx))
                   st == Put(Put(s.storage, storageIdx, sw.a), lastIdx, sw.b)
               IN  IF sw.ok
                   THEN [s |-> [mapping |-> e.m, storage |-> PopBack(st)], res |-> "ok"]
                   ELSE [s |-> [mapping |-> e.m, storage |-> st], res |-> "TypeMismatch"]
          ELSE LET st == IF oldDataSize > 1
                         THEN Put(s.storage, storageIdx,
                                  std_swap_self(At(s.storage, storageIdx)))
                         ELSE s.storage
               IN  [s |-> [mapping |-> e.m, storage |-> PopBack(st)], res |-> "ok"]

EmptyTable == [cols |-> EmptySparseMap, rows |-> EmptySlotMap]

\* The addresses of the buffers the rows of a storage own.
RowAddrs(storage) == {storage[i].buf : i \in 1..Len(storage)} \ {0}

\* Table::createRow<T>: [t, ok, key].  The local row is resized and dropped;
\* what is inserted is a second, fresh TypeErasedVector::create<T>().
Table_createRow(t, T) ==
    LET r == SlotMap_insert(t.rows, Vec_move_construct(Vec_create(T)).this)
    IN  [t |-> [t EXCEPT !.rows = r.s], ok |-> r.ok, key |-> r.key]

\* Table::removeRow: [t, res].  mRows.remove returns the row removed, which
\* removeRow returns as its bool: "true" here whenever remove returns.
Table_removeRow(t, key) ==
    LET r == Rows_remove(t.rows, key)
    IN  [t |-> [t EXCEPT !.rows = r.s], res |-> IF r.res = "ok" THEN "true" ELSE r.res]

\* for (auto &row : mRows) row.push_back_uninit(), from row i on; xs[i] are
\* the bytes found in the new cell of row i.
RECURSIVE PushAll(_, _, _)
PushAll(storage, i, xs) ==
    IF i > Len(storage) THEN storage
    ELSE PushAll([storage EXCEPT ![i] =
                     Vec_push_back_uninit(storage[i], NewAddr(RowAddrs(storage)), xs[i])],
                 i + 1, xs)

\* Table::createColumn: [t, ok, key].
Table_createColumn(t, xs) ==
    LET r == insert(t.cols)
    IN  IF ~r.ok THEN [t |-> t, ok |-> FALSE, key |-> r.key]
        ELSE [t   |-> [cols |-> r.m,
                       rows |-> [t.rows EXCEPT !.storage = PushAll(t.rows.storage, 1, xs)]],
              ok  |-> TRUE,
              key |-> r.key]

\* TypeErasedVector has no pop_and_swap; Table::removeColumn calls it where
\* the design says "swap-removes the cell at that column's former position".
Vec_pop_and_swap(v, pos) == Vec_swap_and_pop(v, pos)

\* for (auto &row : mRows) row.pop_and_swap(idx), from row i on: [storage,
\* res]; the loop ends at the first row that throws.
RECURSIVE PopAll(_, _, _)
PopAll(storage, i, idx) ==
    IF i > Len(storage) THEN [storage |-> storage, res |-> "true"]
    ELSE LET r == Vec_pop_and_swap(storage[i], idx) IN
         IF r.res # "ok" THEN [storage |-> storage, res |-> r.res]
         ELSE PopAll([storage EXCEPT ![i] = r.v], i + 1, idx)

\* Table::removeColumn: [t, res], res "true", "false", or the error thrown.
Table_removeColumn(t, key) ==
    IF ~contains(t.cols, key) THEN [t |-> t, res |-> "false"]
    ELSE LET idx == get(t.cols, key)
             e   == erase(t.cols, key)
             p   == PopAll(t.rows.storage, 1, idx)
         IN  [t   |-> [cols |-> e.m, rows |-> [t.rows EXCEPT !.storage = p.storage]],
              res |-> p.res]

\* TypeErasedVector has no holds_type; Table::getRowView calls it to decide
\* "fails with TypeMismatch if the row's bound type differs from T".
Vec_holds_type(v, T) == v.typeID = T

\* Table::getRowView<T>: [res, row]; res is "view", "TypeMismatch", or
\* "undefined" when mRows.get returns nullptr, which is then dereferenced.
Table_getRowView(t, T, key) ==
    LET g == SlotMap_get(t.rows, key) IN
    IF g.kind = "nullptr" THEN [res |-> "undefined", row |-> 0]
    ELSE IF g.kind = "out_of_range" THEN [res |-> "out_of_range", row |-> 0]
    ELSE IF ~Vec_holds_type(g.val, T) THEN [res |-> "TypeMismatch", row |-> 0]
    ELSE [res |-> "view", row |-> g.pos + 1]

\* TypeErasedVector has no at_unchecked; TypedRowView::at calls it to index
\* the row's buffer, with no check: a position at or beyond count is outside
\* the elements of the row and what is read there is undefined.
Vec_at_unchecked(v, pos) ==
    IF pos < v.count THEN [res |-> "value", val |-> At(v.data, pos)]
    ELSE [res |-> "undefined", val |-> "none"]

\* TypedRowView::at on the view of row v: [res, val], res "throw" when the
\* column key is not contained.
TypedRowView_at(t, v, key) ==
    IF ~contains(t.cols, key) THEN [res |-> "throw", val |-> "none"]
    ELSE Vec_at_unchecked(v, get(t.cols, key))

\* The keys of the live slots of m, and the keys its slots had before.
LiveKeys(m) ==
    {[id |-> m.dense[i], version |-> At(m.sparse, m.dense[i]).version] : i \in 1..Len(m.dense)}

OldKeys(m) ==
    {k \in Keys : k.id < Len(m.sparse) /\ k.version < At(m.sparse, k.id).version}

\* ------------------------------------------------------------- StackAlloc
\* A StackAlloc<BlockSize> is [mBlocks, cap, gen, base]: the std::vector of
\* Blocks, its capacity, and the storage the vector holds its Blocks in: gen
\* counts the storages the vector has had, base is the address of the
\* current one modulo MaxAlign.  A Block is [top, remainder]; its buf is the
\* first BLOCK_USABLE_SZ bytes of the Block, inside the vector's storage.
\* A pointer is [gen, base, blk, off]: offset off of the buf of Block blk of
\* storage gen.

\* The template argument: StackAlloc<64>.
BlockSize == 64

SizeofSizeT == 8

BLOCK_USABLE_SZ == BlockSize - (SizeofSizeT * 2)

\* alignof(std::max_align_t), which operator new honours for the storage.
DefaultAlign == 16

\* The alignments asked for, and the largest of them.
Alignments == {DefaultAlign, 2 * DefaultAlign}

MaxAlign == 2 * DefaultAlign

\* What the address of a storage can be modulo MaxAlign.
BaseResidues == {b \in 0..(MaxAlign - 1) : b % DefaultAlign = 0}

\* The sizes asked for: all below BLOCK_USABLE_SZ.
AllocSizes == {16, 40}

\* The address of pointer p, up to a multiple of MaxAlign.
Addr(p) == p.base + (p.blk * BlockSize) + p.off

\* A pointer into no storage the vector has had.
WildPtr == [gen |-> 0, base |-> 0, blk |-> 0, off |-> 0]

\* Block's default member initializers, for the Block built at index i of
\* storage gen.
NewBlock(gen, base, i) ==
    [top |-> [gen |-> gen, base |-> base, blk |-> i, off |-> 0],
     remainder |-> BLOCK_USABLE_SZ]

\* mBlocks.emplace_back() as libstdc++ does it: within the capacity the
\* Block is built in place; at capacity the vector takes a storage of twice
\* the size (newBase its address modulo MaxAlign), copies its Blocks there
\* member by member, top included, and frees the old one.
Vector_emplace_back(a, newBase) ==
    IF Len(a.mBlocks) < a.cap
    THEN [a EXCEPT !.mBlocks = Append(@, NewBlock(a.gen, a.base, Len(a.mBlocks)))]
    ELSE [mBlocks |-> Append(a.mBlocks, NewBlock(a.gen + 1, newBase, Len(a.mBlocks))),
          cap     |-> IF a.cap = 0 THEN 1 ELSE 2 * a.cap,
          gen     |-> a.gen + 1,
          base    |-> newBase]

\* mBlocks.resize(n) for n within the capacity: drops the Blocks from n on,
\* or builds new ones in place up to n.
RECURSIVE Vector_resize(_, _)
Vector_resize(a, n) ==
    IF n <= Len(a.mBlocks) THEN [a EXCEPT !.mBlocks = SubSeq(@, 1, n)]
    ELSE Vector_resize([a EXCEPT !.mBlocks = Append(@, NewBlock(a.gen, a.base, Len(a.mBlocks)))], n)

\* StackAlloc(): one Block in a vector that had none.
StackAlloc_create(base) ==
    Vector_emplace_back([mBlocks |-> << >>, cap |-> 0, gen |-> 0, base |-> 0], base)

\* reset(): mBlocks.clear() destroys the Blocks and keeps the storage.
StackAlloc_reset(a) == [a EXCEPT !.mBlocks = << >>]

\* std::align(alignment, size, ptr, space): [ok, ptr, space].
std_align(alignment, bytes, ptr, space) ==
    LET diff == (alignment - (Addr(ptr) % alignment)) % alignment IN
    IF bytes + diff > space THEN [ok |-> FALSE, ptr |-> ptr, space |-> space]
    ELSE [ok |-> TRUE, ptr |-> [ptr EXCEPT !.off = @ + diff], space |-> space - diff]

\* do_allocate(size, alignment) on an allocator with a last Block:
\* [a, res, ptr].  bases are the addresses of the storages the vector takes
\* if it grows, in turn.  res is "ok", or "more" when the request did not
\* fit the last of MaxBlocks Blocks, where the code appends another.
RECURSIVE do_allocate(_, _, _, _)
do_allocate(a, bytes, alignment, bases) ==
    LET block == Back(a.mBlocks)
        al    == std_align(alignment, bytes, block.top, block.remainder)
    IN  IF ~al.ok
        THEN IF Len(a.mBlocks) >= MaxBlocks
             THEN [a |-> a, res |-> "more", ptr |-> WildPtr]
             ELSE do_allocate(Vector_emplace_back(a, Head(bases)), bytes, alignment,
                              IF Len(a.mBlocks) < a.cap THEN bases ELSE Tail(bases))
        ELSE [a   |-> [a EXCEPT !.mBlocks[Len(a.mBlocks)] =
                         [top       |-> [al.ptr EXCEPT !.off = @ + bytes],
                          remainder |-> al.space - bytes]],
              res |-> "ok",
              ptr |-> al.ptr]

\* StackAllocCheckpoint(allocator): its CheckpointData.
Checkpoint_create(a) ==
    [vecSize   |-> Len(a.mBlocks),
     top       |-> Back(a.mBlocks).top,
     remainder |-> Back(a.mBlocks).remainder]

\* ~StackAllocCheckpoint() with data, on an allocator left with a Block.
Checkpoint_destroy(a, data) ==
    LET r == Vector_resize(a, data.vecSize) IN
    [r EXCEPT !.mBlocks[Len(r.mBlocks)] = [top |-> data.top, remainder |-> data.remainder]]

\* Whether pointer p points into the buf of the Block at index i of a.
InBlock(a, p, i) ==
    /\ p.gen = a.gen
    /\ p.blk = i
    /\ i < Len(a.mBlocks)
    /\ p.off <= BLOCK_USABLE_SZ

\* ------------------------------------------------------------------ state

VARIABLES
    alloc,      \* a SparseMap used on its own
    aLive,      \* history: the keys insert returned that erase has not taken back
    aRetired,   \* history: the keys erase has taken back
    aFreed,     \* history: the indices erase put up for reuse and insert has
                \* not returned since, in the order of their release
    smap,       \* a SlotMap
    ref,        \* reference map: key -> value, as in tests/slotmap.cpp
    removed,    \* history: the keys removed from smap
    stale,      \* history: the keys smap issued before its last clear()
    last,       \* the last call on alloc or smap: [op, key, res, val]
    vecs,       \* TypeErasedVectors: "a" and "c" of u64, "b" of u32
    vlast,      \* the last call on vecs: [op, dst, src, arg, ty, res]
    table,      \* a Table
    tprev,      \* history: table as it was before the last call on it
    tlast,      \* the last call on table: [op, row, col, ty, res, val]
    made,       \* history: how many rows and columns were created
    arena,      \* a StackAlloc
    cps,        \* the CheckpointData of the open StackAllocCheckpoints, the
                \* innermost last
    regions,    \* history: the regions [ptr, bytes] arena has returned since
                \* its last reset or rewind
    alast       \* the last call on arena: [op, bytes, align, res, ptr]

vars == << alloc, aLive, aRetired, aFreed, smap, ref, removed, stale, last, vecs, vlast,
           table, tprev, tlast, made, arena, cps, regions, alast >>

allocVars == << alloc, aLive, aRetired, aFreed >>

smapVars == << smap, ref, removed, stale >>

vecVars == << vecs, vlast >>

tableVars == << table, tprev, tlast, made >>

arenaVars == << arena, cps, regions, alast >>

Call(op, key, res, val) == [op |-> op, key |-> key, res |-> res, val |-> val]

Bool(b) == IF b THEN "true" ELSE "false"

TCall(op, row, col, ty, res, val) ==
    [op |-> op, row |-> row, col |-> col, ty |-> ty, res |-> res, val |-> val]

ACall(op, bytes, align, res, ptr) ==
    [op |-> op, bytes |-> bytes, align |-> align, res |-> res, ptr |-> ptr]

VCall(op, dst, src, res) ==
    [op |-> op, dst |-> dst, src |-> src, arg |-> 0, ty |-> "none", res |-> res]

\* A call on one vector with a number as argument.
VCallArg(op, dst, arg, res) ==
    [op |-> op, dst |-> dst, src |-> dst, arg |-> arg, ty |-> "none", res |-> res]

\* A typed call at<T>(pos) on one vector.
VCallAt(dst, T, pos, res) ==
    [op |-> "at", dst |-> dst, src |-> dst, arg |-> pos, ty |-> T, res |-> res]

\* The state after construction, the StackAlloc's vector having its storage
\* at an address that is base modulo MaxAlign.
InitAt(base) ==
    /\ alloc = EmptySparseMap
    /\ aLive = {}
    /\ aRetired = {}
    /\ aFreed = << >>
    /\ smap = EmptySlotMap
    /\ ref = << >>
    /\ removed = {}
    /\ stale = {}
    /\ last = Call("init", DefaultKey, "none", "none")
    /\ vecs = [n \in {"a", "b", "c"} |-> Vec_create(IF n = "b" THEN "u32" ELSE "u64")]
    /\ vlast = VCall("init", "a", "a", "none")
    /\ table = EmptyTable
    /\ tprev = EmptyTable
    /\ tlast = TCall("init", DefaultKey, DefaultKey, "none", "none", "none")
    /\ made = [rows |-> 0, cols |-> 0]
    /\ arena = StackAlloc_create(base)
    /\ cps = << >>
    /\ regions = {}
    /\ alast = ACall("init", 0, 0, "none", WildPtr)

\* Where the StackAlloc is not used, its storage is taken to be aligned.
Init == InitAt(0)

\* Where it is used, the address is any the allocator can return.
InitArena == \E base \in BaseResidues : InitAt(base)

\* The key one past the end of the sparse array of m: an index out of range.
BeyondKey(m) == [id |-> Len(m.sparse), version |-> 0]

\* ------------------------------------------------- SparseMap on its own

AllocInsert ==
    LET r == insert(alloc) IN
    /\ alloc' = r.m
    /\ aLive' = IF r.ok THEN aLive \cup {r.key} ELSE aLive
    /\ aFreed' = IF r.ok THEN SelectSeq(aFreed, LAMBDA i : i # r.key.id) ELSE aFreed
    /\ last' = Call("insert", r.key, IF r.ok THEN "ok" ELSE "throw", "none")
    /\ UNCHANGED << aRetired, smapVars, vecVars, tableVars, arenaVars >>

\* erase of a key the map issued (live or retired), of the default key, or
\* of a key whose index is out of range.
AllocErase(key) ==
    LET r == erase(alloc, key) IN
    /\ alloc' = r.m
    /\ aLive' = IF r.res THEN aLive \ {key} ELSE aLive
    /\ aRetired' = IF r.res THEN aRetired \cup {key} ELSE aRetired
    /\ aFreed' = IF r.res /\ At(r.m.sparse, key.id).version # DISABLED_VERSION
                 THEN Append(aFreed, key.id)
                 ELSE aFreed
    /\ last' = Call("erase", key, Bool(r.res), "none")
    /\ UNCHANGED << smapVars, vecVars, tableVars, arenaVars >>

AllocEraseLive == \E key \in aLive : AllocErase(key)

AllocEraseStale == \E key \in aRetired \cup {DefaultKey, BeyondKey(alloc)} : AllocErase(key)

\* The keys whose index is in the sparse array and whose version is not the
\* version of the slot.
WrongVersionKeys(m) ==
    {k \in Keys : k.id < Len(m.sparse) /\ k.version # At(m.sparse, k.id).version}

AllocEraseWrongVersion == \E key \in WrongVersionKeys(alloc) : AllocErase(key)

NextAlloc == AllocInsert \/ AllocEraseLive \/ AllocEraseStale \/ AllocEraseWrongVersion

SpecAlloc == Init /\ [][NextAlloc]_vars

\* allocate/release cycles that go on as long as they can: an insert that
\* succeeds and an erase of a live key are each taken if they stay possible.
NextAllocCycle == AllocInsert \/ AllocEraseLive

FairSpecAlloc ==
    /\ Init /\ [][NextAllocCycle]_vars
    /\ WF_vars(AllocInsert /\ last'.res = "ok")
    /\ WF_vars(AllocEraseLive)

\* ---------------------------------------------------------------- SlotMap

Dom(f) == DOMAIN f

MapPut(f, k, v) == [x \in (DOMAIN f) \cup {k} |-> IF x = k THEN v ELSE f[x]]

MapDel(f, k) == [x \in (DOMAIN f) \ {k} |-> f[x]]

SlotInsert ==
    \E v \in Values :
      LET r == SlotMap_insert(smap, v) IN
      /\ smap' = r.s
      /\ ref' = IF r.ok THEN MapPut(ref, r.key, v) ELSE ref
      /\ last' = Call("insert", r.key, IF r.ok THEN "ok" ELSE "throw", "none")
      /\ UNCHANGED << removed, stale, allocVars, vecVars, tableVars, arenaVars >>

SlotRemove(key) ==
    LET r == SlotMap_remove(smap, key) IN
    /\ smap' = r.s
    /\ ref' = IF r.ok THEN MapDel(ref, key) ELSE ref
    /\ removed' = IF r.ok THEN removed \cup {key} ELSE removed
    /\ last' = Call("remove", key, IF r.ok THEN "ok" ELSE "throw", r.val)
    /\ UNCHANGED << stale, allocVars, vecVars, tableVars, arenaVars >>

SlotRemoveLive == \E key \in DOMAIN ref : SlotRemove(key)

SlotRemoveStale == \E key \in removed \cup {DefaultKey, BeyondKey(smap.mapping)} : SlotRemove(key)

\* The removed keys nearest to resolving again: of each index, the one
\* removed last.
LatestRemoved == {k \in removed : \A r \in removed : r.id = k.id => r.version <= k.version}

SlotRemoveRecent ==
    \E key \in LatestRemoved \cup {DefaultKey, BeyondKey(smap.mapping)} : SlotRemove(key)

\* remove of a key issued before a clear().  When such a key matches the
\* version of a slot that is on the free list, remove reads the free-list
\* link as a storage index: that call is undefined and is left out.
SlotRemoveOld ==
    \E key \in stale :
      /\ contains(smap.mapping, key) => key \in DOMAIN ref
      /\ SlotRemove(key)

SlotClear ==
    /\ smap' = SlotMap_clear(smap)
    /\ ref' = << >>
    /\ removed' = {}
    /\ stale' = stale \cup (DOMAIN ref) \cup removed
    /\ last' = Call("clear", DefaultKey, "none", "none")
    /\ UNCHANGED << allocVars, vecVars, tableVars, arenaVars >>

NextSlotMap == SlotInsert \/ SlotRemoveLive \/ SlotRemoveRecent

SpecSlotMap == Init /\ [][NextSlotMap]_vars

NextSlotMapClear == SlotInsert \/ SlotRemoveLive \/ SlotRemoveStale \/ SlotRemoveOld \/ SlotClear

SpecSlotMapClear == Init /\ [][NextSlotMapClear]_vars

\* Keys this SlotMap has not issued: what another SlotMap of the same key
\* type can have returned to the caller.
ForeignKeys == Keys \ ((DOMAIN ref) \cup removed)

\* remove of a key this SlotMap never issued.  When such a key matches the
\* version of a free slot, remove reads the free-list link as a storage
\* index; the calls in which that index is beyond mDense are undefined and
\* are left out.
SlotRemoveForeign ==
    \E key \in ForeignKeys :
      /\ contains(smap.mapping, key) => get(smap.mapping, key) < size(smap.mapping)
      /\ SlotRemove(key)

\* The store holds as many values as the reference map.  A remove that took
\* a value of another key away leaves mDense and the sparse entries out of
\* step, and the calls after it index outside mDense: they are left out.
Coherent == SlotMap_size(smap) = Cardinality(DOMAIN ref)

NextSlotMapForeign ==
    \/ Coherent /\ SlotInsert
    \/ Coherent /\ SlotRemoveLive
    \/ Coherent /\ SlotRemoveRecent
    \/ Coherent /\ SlotRemoveForeign

SpecSlotMapForeign == Init /\ [][NextSlotMapForeign]_vars

\* ------------------------------------------------- TypeErasedVector

VecNames == {"a", "b"}

\* The addresses of the buffers the vectors own.
VecAddrs == {vecs[n].buf : n \in DOMAIN vecs} \ {0}

\* push_back_uninit, the caller then constructing x in the slot returned.
VecPush(n, x) ==
    /\ vecs' = [vecs EXCEPT ![n] = Vec_push_back_uninit(vecs[n], NewAddr(VecAddrs), x)]
    /\ vlast' = VCall("push_back_uninit", n, n, "ok")
    /\ UNCHANGED << allocVars, smapVars, last, tableVars, arenaVars >>

VecClear(n) ==
    /\ vecs' = [vecs EXCEPT ![n] = Vec_clear(vecs[n])]
    /\ vlast' = VCall("clear", n, n, "ok")
    /\ UNCHANGED << allocVars, smapVars, last, tableVars, arenaVars >>

\* TypeErasedVector tmp = std::move(vecs[n]); tmp is then destroyed.
VecMoveOut(n) ==
    /\ vecs' = [vecs EXCEPT ![n] = Vec_move_construct(vecs[n]).other]
    /\ vlast' = VCall("move_construct", n, n, "ok")
    /\ UNCHANGED << allocVars, smapVars, last, tableVars, arenaVars >>

\* vecs[dst] = vecs[src]
VecCopyAssign(dst, src) ==
    LET r == Vec_copy_assign(vecs[dst], vecs[src], NewAddr(VecAddrs)) IN
    /\ vecs' = [vecs EXCEPT ![dst] = r.this, ![src] = r.other]
    /\ vlast' = VCall("copy_assign", dst, src, r.res)
    /\ UNCHANGED << allocVars, smapVars, last, tableVars, arenaVars >>

\* vecs[dst] = std::move(vecs[src])
VecMoveAssign(dst, src) ==
    LET r == Vec_move_assign(vecs[dst], vecs[src]) IN
    /\ vecs' = [vecs EXCEPT ![dst] = r.this, ![src] = r.other]
    /\ vlast' = VCall("move_assign", dst, src, r.res)
    /\ UNCHANGED << allocVars, smapVars, last, tableVars, arenaVars >>

NextVec ==
    \/ \E n \in VecNames, x \in Values : vecs[n].count < MaxCount /\ VecPush(n, x)
    \/ \E n \in VecNames : VecClear(n)
    \/ \E n \in VecNames : VecMoveOut(n)
    \/ \E dst \in VecNames : \E src \in VecNames \ {dst} : VecCopyAssign(dst, src)
    \/ \E dst \in VecNames : \E src \in VecNames \ {dst} : VecMoveAssign(dst, src)

SpecVec == Init /\ [][NextVec]_vars

\* The two vectors of one element type, on which every operation is run.
OpNames == {"a", "c"}

\* The addresses owned by the vectors other than n.
OtherAddrs(n) == {vecs[m].buf : m \in (DOMAIN vecs) \ {n}} \ {0}

VecPopBack(n) ==
    LET r == Vec_pop_back(vecs[n]) IN
    /\ vecs' = [vecs EXCEPT ![n] = r.v]
    /\ vlast' = VCall("pop_back", n, n, r.res)
    /\ UNCHANGED << allocVars, smapVars, last, tableVars, arenaVars >>

VecSwapAndPop(n, pos) ==
    LET r == Vec_swap_and_pop(vecs[n], pos) IN
    /\ vecs' = [vecs EXCEPT ![n] = r.v]
    /\ vlast' = VCallArg("swap_and_pop", n, pos, r.res)
    /\ UNCHANGED << allocVars, smapVars, last, tableVars, arenaVars >>

VecReserve(n, newCap) ==
    /\ vecs' = [vecs EXCEPT ![n] = Vec_reserve(vecs[n], newCap, NewAddr(VecAddrs))]
    /\ vlast' = VCallArg("reserve", n, newCap, "ok")
    /\ UNCHANGED << allocVars, smapVars, last, tableVars, arenaVars >>

\* resize(count); the positions it exposes hold any bytes.
VecResize(n, count) ==
    \E xs \in [1..(IF count > vecs[n].count THEN count - vecs[n].count ELSE 0) -> Values] :
      /\ vecs' = [vecs EXCEPT ![n] = Vec_resize(vecs[n], count, OtherAddrs(n), xs)]
      /\ vlast' = VCallArg("resize", n, count, "ok")
      /\ UNCHANGED << allocVars, smapVars, last, tableVars, arenaVars >>

\* at<T>(pos), which reads and leaves the vector as it is.
VecAt(n, T, pos) ==
    /\ vlast' = VCallAt(n, T, pos, Vec_at(vecs[n], T, pos).res)
    /\ UNCHANGED << vecs, allocVars, smapVars, last, tableVars, arenaVars >>

\* The calls below are those of NextVec and NextVecSolo, run on two vectors
\* of one element type and, for the assignments, on the third of another
\* type; of the last call only the name is kept.
PairCall(op, n, v) ==
    /\ vecs' = [vecs EXCEPT ![n] = v]
    /\ vlast' = [op |-> op]
    /\ UNCHANGED << allocVars, smapVars, last, tableVars, arenaVars >>

\* A call on two vectors, r its result [this, other, res].
PairCall2(op, dst, src, r) ==
    /\ vecs' = [vecs EXCEPT ![dst] = r.this, ![src] = r.other]
    /\ vlast' = [op |-> op]
    /\ UNCHANGED << allocVars, smapVars, last, tableVars, arenaVars >>

PairPush ==
    \E n \in OpNames, x \in Values :
      /\ vecs[n].count < MaxCount
      /\ PairCall("push_back_uninit", n, Vec_push_back_uninit(vecs[n], NewAddr(VecAddrs), x))

PairClear == \E n \in OpNames : PairCall("clear", n, Vec_clear(vecs[n]))

\* TypeErasedVector tmp = std::move(vecs[n]); tmp is then destroyed.
PairMoveOut == \E n \in OpNames : PairCall("move_construct", n, Vec_move_construct(vecs[n]).other)

PairPopBack == \E n \in OpNames : PairCall("pop_back", n, Vec_pop_back(vecs[n]).v)

PairSwapAndPop ==
    \E n \in OpNames, pos \in 0..MaxCount :
      PairCall("swap_and_pop", n, Vec_swap_and_pop(vecs[n], pos).v)

PairReserve ==
    \E n \in OpNames, newCap \in 0..(MaxCount + 1) :
      PairCall("reserve", n, Vec_reserve(vecs[n], newCap, NewAddr(VecAddrs)))

PairResize ==
    \E n \in OpNames, count \in 0..MaxCount :
      \E xs \in [1..(IF count > vecs[n].count THEN count - vecs[n].count ELSE 0) -> Values] :
        PairCall("resize", n, Vec_resize(vecs[n], count, OtherAddrs(n), xs))

\* The object named dst is destroyed and built again as a copy of vecs[src].
PairCopyConstruct ==
    \E dst \in OpNames : \E src \in OpNames \ {dst} :
      PairCall("copy_construct", dst, Vec_copy_construct(vecs[src], NewAddr(VecAddrs)))

PairCopyAssign ==
    \E dst \in DOMAIN vecs : \E src \in (DOMAIN vecs) \ {dst} :
      PairCall2("copy_assign", dst, src,
                Vec_copy_assign(vecs[dst], vecs[src], NewAddr(VecAddrs)))

PairMoveAssign ==
    \E dst \in DOMAIN vecs : \E src \in (DOMAIN vecs) \ {dst} :
      PairCall2("move_assign", dst, src, Vec_move_assign(vecs[dst], vecs[src]))

NextVecOps ==
    \/ PairPush
    \/ PairClear
    \/ PairMoveOut
    \/ PairPopBack
    \/ PairSwapAndPop
    \/ PairReserve
    \/ PairResize
    \/ PairCopyConstruct
    \/ PairCopyAssign
    \/ PairMoveAssign

SpecVecOps == Init /\ [][NextVecOps]_vars

\* One vector on its own, grown further.
NextVecSolo ==
    \/ \E x \in Values : vecs["a"].count < MaxSoloCount /\ VecPush("a", x)
    \/ VecClear("a")
    \/ VecMoveOut("a")
    \/ VecPopBack("a")
    \/ \E pos \in 0..MaxSoloCount : VecSwapAndPop("a", pos)
    \/ \E newCap \in 0..MaxSoloCount : VecReserve("a", newCap)
    \/ \E count \in 0..MaxSoloCount : VecResize("a", count)
    \/ \E T \in Types, pos \in 0..MaxSoloCount : VecAt("a", T, pos)

SpecVecSolo == Init /\ [][NextVecSolo]_vars

\* Two vectors of one element type under copy and move, each call kept
\* with its operands.

\* The object named dst is destroyed and built again as a copy of vecs[src].
VecCopyConstruct(dst, src) ==
    /\ vecs' = [vecs EXCEPT ![dst] = Vec_copy_construct(vecs[src], NewAddr(VecAddrs))]
    /\ vlast' = VCall("copy_construct", dst, src, "ok")
    /\ UNCHANGED << allocVars, smapVars, last, tableVars, arenaVars >>

\* The object named dst is destroyed and built again from std::move(vecs[src]).
VecMoveConstruct(dst, src) ==
    LET r == Vec_move_construct(vecs[src]) IN
    /\ vecs' = [vecs EXCEPT ![dst] = r.this, ![src] = r.other]
    /\ vlast' = VCall("move_construct", dst, src, "ok")
    /\ UNCHANGED << allocVars, smapVars, last, tableVars, arenaVars >>

NextVecCopy ==
    \/ \E n \in OpNames, x \in Values : vecs[n].count < MaxCount /\ VecPush(n, x)
    \/ \E n \in OpNames : VecPopBack(n)
    \/ \E dst \in OpNames : \E src \in OpNames \ {dst} : VecCopyConstruct(dst, src)
    \/ \E dst \in OpNames : \E src \in OpNames \ {dst} : VecMoveConstruct(dst, src)
    \/ \E dst \in OpNames : \E src \in OpNames \ {dst} : VecCopyAssign(dst, src)
    \/ \E dst \in OpNames : \E src \in OpNames \ {dst} : VecMoveAssign(dst, src)

SpecVecCopy == Init /\ [][NextVecCopy]_vars

\* One vector on its own, its sizes computed in size_t.  A call that does
\* not return is the last call of the run.
Returned == vlast.res # "diverges"

\* An element count whose size in bytes wraps to 0: SIZE_MAX / sizeof(T) + 1.
WrapCount(n) == SizeMod \div ElemSize(vecs[n].typeID)

\* An element count above the largest capacity doubling can reach.
HugeCount == (SizeMod \div 2) + 1

VecPushWide(n, x) ==
    LET g == IF shouldGrow(vecs[n])
             THEN Vec_reserveWide(vecs[n], calculateCapacityWide(vecs[n]), NewAddr(VecAddrs))
             ELSE [v |-> vecs[n], res |-> "ok"]
    IN  /\ vecs' = [vecs EXCEPT ![n] =
                      IF g.res = "ok"
                      THEN [g.v EXCEPT !.count = g.v.count + 1, !.data = Append(g.v.data, x)]
                      ELSE g.v]
        /\ vlast' = VCall("push_back_uninit", n, n, g.res)
        /\ UNCHANGED << allocVars, smapVars, last, tableVars, arenaVars >>

VecReserveWide(n, newCap) ==
    LET r == Vec_reserveWide(vecs[n], newCap, NewAddr(VecAddrs)) IN
    /\ vecs' = [vecs EXCEPT ![n] = r.v]
    /\ vlast' = VCallArg("reserve", n, newCap, r.res)
    /\ UNCHANGED << allocVars, smapVars, last, tableVars, arenaVars >>

\* resize(count); the positions it exposes hold any bytes.
VecResizeWide(n, count) ==
    LET g == GrowCapacityWide(vecs[n], count, OtherAddrs(n))
        k == IF count > vecs[n].count /\ g.res = "ok" THEN count - vecs[n].count ELSE 0
    IN  \E xs \in [1..k -> Values] :
          LET r == Vec_resizeWide(vecs[n], count, OtherAddrs(n), xs) IN
          /\ vecs' = [vecs EXCEPT ![n] = r.v]
          /\ vlast' = VCallArg("resize", n, count, r.res)
          /\ UNCHANGED << allocVars, smapVars, last, tableVars, arenaVars >>

NextVecWide ==
    \/ \E x \in Values : Returned /\ vecs["a"].count < MaxSoloCount /\ VecPushWide("a", x)
    \/ Returned /\ VecClear("a")
    \/ Returned /\ VecPopBack("a")
    \/ \E newCap \in (0..MaxSoloCount) \cup {WrapCount("a")} :
         Returned /\ VecReserveWide("a", newCap)
    \/ \E count \in (0..MaxSoloCount) \cup {HugeCount} :
         Returned /\ VecResizeWide("a", count)

SpecVecWide == Init /\ [][NextVecWide]_vars

\* ------------------------------------------------------------------ Table

RowKeys == LiveKeys(table.rows.mapping) \cup OldKeys(table.rows.mapping) \cup {DefaultKey}

ColKeys == LiveKeys(table.cols) \cup OldKeys(table.cols) \cup {DefaultKey}

\* The TypeErasedVector a live row key resolves to in table t.
RowOf(t, key) == SlotMap_get(t.rows, key).val

TblCreateRow(T) ==
    LET r == Table_createRow(table, T) IN
    /\ made.rows < MaxRowsMade
    /\ table' = r.t
    /\ tprev' = table
    /\ tlast' = TCall("createRow", r.key, DefaultKey, T, IF r.ok THEN "ok" ELSE "throw", "none")
    /\ made' = [made EXCEPT !.rows = @ + 1]
    /\ UNCHANGED << allocVars, smapVars, last, vecVars, arenaVars >>

TblRemoveRow(key) ==
    LET r == Table_removeRow(table, key) IN
    /\ table' = r.t
    /\ tprev' = table
    /\ tlast' = TCall("removeRow", key, DefaultKey, "none", r.res, "none")
    /\ UNCHANGED << made, allocVars, smapVars, last, vecVars, arenaVars >>

TblCreateColumn ==
    \E xs \in [1..Len(table.rows.storage) -> Values] :
      LET r == Table_createColumn(table, xs) IN
      /\ made.cols < MaxColsMade
      /\ table' = r.t
      /\ tprev' = table
      /\ tlast' = TCall("createColumn", DefaultKey, r.key, "none",
                        IF r.ok THEN "ok" ELSE "throw", "none")
      /\ made' = [made EXCEPT !.cols = @ + 1]
      /\ UNCHANGED << allocVars, smapVars, last, vecVars, arenaVars >>

TblRemoveColumn(key) ==
    LET r == Table_removeColumn(table, key) IN
    /\ table' = r.t
    /\ tprev' = table
    /\ tlast' = TCall("removeColumn", DefaultKey, key, "none", r.res, "none")
    /\ UNCHANGED << made, allocVars, smapVars, last, vecVars, arenaVars >>

TblGetRowView(key, T) ==
    /\ tprev' = table
    /\ tlast' = TCall("getRowView", key, DefaultKey, T, Table_getRowView(table, T, key).res, "none")
    /\ UNCHANGED << table, made, allocVars, smapVars, last, vecVars, arenaVars >>

\* getRowView<T>(rkey).at(ckey), T the type the row was created with.
TblAt(rkey, ckey) ==
    LET row == RowOf(table, rkey)
        v   == Table_getRowView(table, row.typeID, rkey)
        a   == TypedRowView_at(table, row, ckey)
    IN  /\ v.res = "view"
        /\ tprev' = table
        /\ tlast' = TCall("at", rkey, ckey, row.typeID, a.res, a.val)
        /\ UNCHANGED << table, made, allocVars, smapVars, last, vecVars, arenaVars >>

\* getRowView<T>(rkey).at(ckey) = x, where at returns a cell of the row.
TblWrite(rkey, ckey, x) ==
    LET g   == SlotMap_get(table.rows, rkey)
        row == g.val
        a   == TypedRowView_at(table, row, ckey)
        pos == get(table.cols, ckey)
    IN  /\ a.res = "value"
        /\ a.val # x
        /\ table' = [table EXCEPT !.rows.storage =
                        Put(@, g.pos, [row EXCEPT !.data = Put(row.data, pos, x)])]
        /\ tprev' = table
        /\ tlast' = TCall("write", rkey, ckey, row.typeID, "ok", x)
        /\ UNCHANGED << made, allocVars, smapVars, last, vecVars, arenaVars >>

NextTable ==
    \/ \E T \in Types : TblCreateRow(T)
    \/ \E key \in RowKeys : TblRemoveRow(key)
    \/ TblCreateColumn
    \/ \E key \in ColKeys : TblRemoveColumn(key)
    \/ \E key \in RowKeys, T \in Types : TblGetRowView(key, T)
    \/ \E rkey \in LiveKeys(table.rows.mapping), ckey \in ColKeys : TblAt(rkey, ckey)
    \/ \E rkey \in LiveKeys(table.rows.mapping), ckey \in LiveKeys(table.cols), x \in Values :
         TblWrite(rkey, ckey, x)

SpecTable == Init /\ [][NextTable]_vars

\* ------------------------------------------------------------- StackAlloc

otherVars == << allocVars, smapVars, last, vecVars, tableVars >>

\* An assert that fails ends the run.
ArenaRuns == alast.res # "abort"

\* The storages the vector may take during one call, which makes it grow
\* MaxBlocks - 1 times at most.
Bases == [1..(MaxBlocks - 1) -> BaseResidues]

\* allocate(bytes, alignment) on an allocator that has a last Block, for
\* the calls that return with MaxBlocks Blocks or fewer.
ArenaAllocate(bytes, alignment) ==
    /\ ArenaRuns
    /\ Len(arena.mBlocks) > 0
    /\ \E bases \in Bases :
         LET r == do_allocate(arena, bytes, alignment, bases) IN
         /\ r.res = "ok"
         /\ arena' = r.a
         /\ regions' = regions \cup {[ptr |-> r.ptr, bytes |-> bytes]}
         /\ alast' = ACall("allocate", bytes, alignment, "ok", r.ptr)
    /\ UNCHANGED << cps, otherVars >>

\* StackAllocCheckpoint cp(arena), in a scope inside those already open.
ArenaCheckpoint ==
    /\ ArenaRuns
    /\ Len(arena.mBlocks) > 0
    /\ Len(cps) < MaxCheckpoints
    /\ cps' = Append(cps, Checkpoint_create(arena))
    /\ alast' = ACall("checkpoint", 0, 0, "ok", Back(arena.mBlocks).top)
    /\ UNCHANGED << arena, regions, otherVars >>

\* The innermost scope ends: ~StackAllocCheckpoint(), the allocator holding
\* at least the Blocks it held when the checkpoint was made.
ArenaRelease ==
    /\ ArenaRuns
    /\ Len(cps) > 0
    /\ Back(cps).vecSize > 0
    /\ Len(arena.mBlocks) >= Back(cps).vecSize
    /\ arena' = Checkpoint_destroy(arena, Back(cps))
    /\ cps' = PopBack(cps)
    /\ regions' = {}
    /\ alast' = ACall("release", 0, 0, "ok", Back(cps).top)
    /\ UNCHANGED otherVars

NextArenaLifo ==
    \/ \E bytes \in AllocSizes, alignment \in Alignments : ArenaAllocate(bytes, alignment)
    \/ ArenaCheckpoint
    \/ ArenaRelease

SpecArenaLifo == InitArena /\ [][NextArenaLifo]_vars

\* reset()
ArenaReset ==
    /\ ArenaRuns
    /\ arena' = StackAlloc_reset(arena)
    /\ regions' = {}
    /\ alast' = ACall("reset", 0, 0, "ok", WildPtr)
    /\ UNCHANGED << cps, otherVars >>

\* allocate(bytes, alignment) on an allocator without Blocks: mBlocks.back()
\* is undefined and names the bytes before the storage as a Block.  Either
\* std::align rejects what it reads there as top and remainder, and the code
\* appends a Block and allocates from it, or it accepts it and a pointer
\* into no Block is returned.  The storage has room for the Block appended:
\* clear() keeps the capacity.
ArenaAllocateEmpty(bytes, alignment) ==
    /\ ArenaRuns
    /\ Len(arena.mBlocks) = 0
    /\ \/ \E bases \in Bases :
            LET r == do_allocate(Vector_emplace_back(arena, Head(bases)), bytes, alignment,
                                 bases)
            IN  /\ r.res = "ok"
                /\ arena' = r.a
                /\ regions' = regions \cup {[ptr |-> r.ptr, bytes |-> bytes]}
                /\ alast' = ACall("allocate", bytes, alignment, "ok", r.ptr)
       \/ /\ alast' = ACall("allocate", bytes, alignment, "undefined", WildPtr)
          /\ UNCHANGED << arena, regions >>
    /\ UNCHANGED << cps, otherVars >>

\* StackAllocCheckpoint cp(arena) on an allocator without Blocks: the top
\* and remainder it keeps are read through mBlocks.back(), which is undefined.
ArenaCheckpointEmpty ==
    /\ ArenaRuns
    /\ Len(arena.mBlocks) = 0
    /\ Len(cps) < MaxCheckpoints
    /\ cps' = Append(cps, [vecSize |-> 0, top |-> WildPtr, remainder |-> 0])
    /\ alast' = ACall("checkpoint", 0, 0, "undefined", WildPtr)
    /\ UNCHANGED << arena, regions, otherVars >>

\* ~StackAllocCheckpoint() after a reset has left fewer Blocks than the
\* checkpoint counted: the assert fails, or, compiled out, resize builds new
\* Blocks; a checkpoint that counted none writes through mBlocks.back() of
\* an empty vector.
ArenaReleaseShort ==
    /\ ArenaRuns
    /\ Len(cps) > 0
    /\ Len(arena.mBlocks) < Back(cps).vecSize \/ Back(cps).vecSize = 0
    /\ \/ /\ Len(arena.mBlocks) < Back(cps).vecSize
          /\ alast' = ACall("release", 0, 0, "abort", WildPtr)
          /\ UNCHANGED << arena, cps, regions >>
       \/ /\ Back(cps).vecSize > 0
          /\ arena' = Checkpoint_destroy(arena, Back(cps))
          /\ cps' = PopBack(cps)
          /\ regions' = {}
          /\ alast' = ACall("release", 0, 0, "ok", Back(cps).top)
       \/ /\ Back(cps).vecSize = 0
          /\ arena' = Vector_resize(arena, 0)
          /\ cps' = PopBack(cps)
          /\ regions' = {}
          /\ alast' = ACall("release", 0, 0, "undefined", WildPtr)
    /\ UNCHANGED otherVars

\* With reset(); the requests here all ask for the default alignment, and
\* one checkpoint is open at a time.
NextArena ==
    \/ \E bytes \in AllocSizes : ArenaAllocate(bytes, DefaultAlign)
    \/ Len(cps) = 0 /\ ArenaCheckpoint
    \/ ArenaRelease
    \/ ArenaReset
    \/ \E bytes \in AllocSizes : ArenaAllocateEmpty(bytes, DefaultAlign)
    \/ Len(cps) = 0 /\ ArenaCheckpointEmpty
    \/ ArenaReleaseShort

SpecArena == InitArena /\ [][NextArena]_vars

\* ------------------------------------------------------------------ claims

\* C1: for every sequence of SlotMap insert and remove calls run beside the
\* reference map, size() is the number of keys inserted and not removed,
\* get(h) is the value inserted under h for every such key, and get and
\* contains report absence for every removed key.
C1_Refinement ==
    /\ SlotMap_size(smap) = Cardinality(DOMAIN ref)
    /\ \A h \in DOMAIN ref :
         /\ SlotMap_contains(smap, h)
         /\ SlotMap_get(smap, h).kind = "value"
         /\ SlotMap_get(smap, h).val = ref[h]
    /\ \A h \in removed :
         /\ ~SlotMap_contains(smap, h)
         /\ SlotMap_get(smap, h).kind = "nullptr"

\* C1 witness: a key is still resolved to its value after a remove moved
\* its element to another dense position, and a removed key is absent.
C1_Witness ==
    /\ last.op = "remove" /\ last.res = "ok"
    /\ \E h \in DOMAIN ref, g \in DOMAIN ref :
         /\ ref[h] # ref[g]
         /\ SlotMap_get(smap, h).kind = "value"
         /\ SlotMap_get(smap, h).pos = 0
         /\ h.id # 0
    /\ removed # {}

\* C2: over allocate and release calls, a released (index, generation) is
\* never returned again, no two live handles share an (index, generation),
\* and an index is live again only with a generation strictly larger than
\* every generation it was retired with.
C2_NoReissue ==
    /\ aLive \cap aRetired = {}
    /\ Cardinality(aLive) = size(alloc)
    /\ \A h \in aLive, g \in aLive : h.id = g.id => h = g
    /\ \A h \in aLive : \A r \in aRetired : r.id = h.id => r.version < h.version
    /\ (last.op = "insert" /\ last.res = "ok") =>
          /\ last.key \in aLive
          /\ contains(alloc, last.key)

\* C2 witness: insert has just returned an index that was retired before,
\* while another handle is live.
C2_Witness ==
    /\ last.op = "insert" /\ last.res = "ok"
    /\ \E r \in aRetired : r.id = last.key.id
    /\ Cardinality(aLive) >= 2

\* C3: after clear(), every key issued before the clear is absent, and stays
\* absent over the insert and remove calls that follow.
C3_StaleAfterClear ==
    \A h \in stale : /\ ~SlotMap_contains(smap, h)
                     /\ SlotMap_get(smap, h).kind = "nullptr"

Disabled(m, i) == i < Len(m.sparse) /\ At(m.sparse, i).version = DISABLED_VERSION

SomeDisabled == \E i \in 0..(SPARSE_MAX_IDX - 1) : Disabled(alloc, i)

C8_Retired ==
    \A i \in 0..(SPARSE_MAX_IDX - 1) :
      Disabled(alloc, i) =>
        /\ i \notin SeqSet(FreeList(alloc))
        /\ i \notin SeqSet(alloc.dense)
        /\ \A k \in Keys : k.id = i => ~contains(alloc, k)
        /\ ~(last.op = "insert" /\ last.res = "ok" /\ last.key.id = i)
        /\ size(alloc) = Cardinality({k \in aLive : k.id # i})

C8_Stays ==
    \A i \in 0..(SPARSE_MAX_IDX - 1) : Disabled(alloc, i) => Disabled(alloc', i)

\* C8: allocate/release cycles bring a slot's generation to the disabled
\* sentinel; from then on the slot stays disabled, is not on the free list,
\* is never returned by insert, no key resolves to it, and size() is the
\* number of live handles on the other slots.
C8_PermanentRetire ==
    /\ <>SomeDisabled
    /\ []C8_Retired
    /\ [][C8_Stays]_vars

\* C8 witness: a slot is disabled while another slot has a live handle and a
\* third is on the free list.
C8_Witness ==
    /\ SomeDisabled
    /\ aLive # {}
    /\ alloc.head # FREELIST_END_IDX

\* C7: copy-assignment and move-assignment between two TypeErasedVectors
\* bound to different element types, in any reachable state of each, fail
\* with TypeMismatch and leave both unchanged.
C7_AssignTypeMismatch ==
    [][(vlast'.op \in {"copy_assign", "move_assign"}
          /\ vecs[vlast'.dst].typeID # vecs[vlast'.src].typeID)
       => (vlast'.res = "TypeMismatch" /\ vecs' = vecs)]_vars

\* C4: in every reachable Table state each live row has as many cells as
\* there are live columns.
C4_RowWidth ==
    \A r \in LiveKeys(table.rows.mapping) :
      /\ SlotMap_get(table.rows, r).kind = "value"
      /\ Vec_size(RowOf(table, r)) = size(table.cols)

\* What rowView.at(c) reads in the row of key r, in table t.
CellAt(t, r, c) == TypedRowView_at(t, RowOf(t, r), c)

C6_CreateRemoveColumn ==
    [][(/\ tlast.op = "createColumn" /\ tlast.res = "ok"
        /\ tlast'.op = "removeColumn" /\ tlast'.col = tlast.col)
       => (/\ tlast'.res = "true"
           /\ \A r \in LiveKeys(tprev.rows.mapping) :
                /\ SlotMap_contains(table'.rows, r)
                /\ Vec_size(RowOf(table', r)) = Vec_size(RowOf(tprev, r))
                /\ \A c \in LiveKeys(tprev.cols) :
                     /\ contains(table'.cols, c)
                     /\ get(table'.cols, c) < Vec_size(RowOf(table', r)))]_vars

\* C9: a Table lookup by a stale or unknown key returns an absence indicator
\* and raises nothing: getRowView of a row key that is not contained, and
\* view.at of a column key that is not contained.
C9_LookupAbsence ==
    /\ (tlast.op = "getRowView" /\ ~SlotMap_contains(table.rows, tlast.row))
          => tlast.res = "absent"
    /\ (tlast.op = "at" /\ ~contains(table.cols, tlast.col))
          => tlast.res = "absent"

\* C10: removeRow(r) returns true and removes the row when r is live, and
\* returns false, raising nothing and changing nothing, when r is not.
C10_RemoveRow ==
    tlast.op = "removeRow" =>
      IF SlotMap_contains(tprev.rows, tlast.row)
      THEN /\ tlast.res = "true"
           /\ ~SlotMap_contains(table.rows, tlast.row)
           /\ SlotMap_size(table.rows) = SlotMap_size(tprev.rows) - 1
      ELSE /\ tlast.res = "false"
           /\ table = tprev

\* What a Table call ends in when it raises an error.
TableErrors == {"throw", "TypeMismatch", "OutOfBounds", "EmptyContainer", "InvalidHandle"}

\* C11: a Table operation that ends in an error leaves the column allocator,
\* the row allocator and every row exactly as they were before the call; so
\* for a removeColumn or a removeRow that fails part-way.
C11_ErrorLeavesState ==
    tlast.res \in TableErrors => table = tprev

\* C13: removing one Table row leaves every other live row reachable through
\* its own key, with the element type and the cells it had before, whatever
\* the types of the rows and whichever row is removed.
C13_RemoveRowFrame ==
    (tlast.op = "removeRow" /\ SlotMap_contains(tprev.rows, tlast.row)) =>
      \A r \in LiveKeys(tprev.rows.mapping) \ {tlast.row} :
        /\ SlotMap_get(table.rows, r).kind = "value"
        /\ RowOf(table, r).typeID = RowOf(tprev, r).typeID
        /\ RowOf(table, r).count = RowOf(tprev, r).count
        /\ RowOf(table, r).data = RowOf(tprev, r).data


\* C12: remove(h) of a live key h returns the value inserted under h, takes
\* one value away and leaves every other live key resolving to its own
\* value; remove(h) of a key that is not live (removed before, never issued,
\* default-constructed) fails with InvalidHandle and changes nothing.
C12_Remove ==
    [][last'.op = "remove" =>
         IF last'.key \in DOMAIN ref
         THEN /\ last'.res = "ok"
              /\ last'.val = ref[last'.key]
              /\ SlotMap_size(smap') = SlotMap_size(smap) - 1
              /\ \A g \in (DOMAIN ref) \ {last'.key} :
                   /\ SlotMap_get(smap', g).kind = "value"
                   /\ SlotMap_get(smap', g).val = ref[g]
         ELSE /\ last'.res = "throw"
              /\ smap' = smap]_vars


\* C14: in every reachable SparseMap state the sparse slot at index dense[i]
\* stores position i for every dense position i below size(), and for every
\* live key h, dense[get(h)] is h.id.
C14_DenseSparse ==
    /\ \A i \in 0..(size(alloc) - 1) :
         /\ At(alloc.dense, i) < Len(alloc.sparse)
         /\ At(alloc.sparse, At(alloc.dense, i)).denseIdx = i
    /\ \A h \in aLive :
         /\ get(alloc, h) < size(alloc)
         /\ At(alloc.dense, get(alloc, h)) = h.id

\* C14 witness: erase has just taken a key away and the last dense entry
\* was moved into a vacated position: position 0 holds a slot other than 0
\* while a second key is live.
C14_Witness ==
    /\ last.op = "erase" /\ last.res = "true"
    /\ size(alloc) >= 2
    /\ At(alloc.dense, 0) # 0
    /\ \E h \in aLive : get(alloc, h) = 0

\* A slot is live: its position indexes a dense entry that refers back to it.
Live(m, i) ==
    /\ At(m.sparse, i).denseIdx < Len(m.dense)
    /\ At(m.dense, At(m.sparse, i).denseIdx) = i

\* A slot is free: the links from the free-list head reach it.
Free(m, i) == i \in SeqSet(FreeList(m))

\* The free list has no slot twice (so no cycle) and its last link is the
\* end-of-freelist sentinel.
FreeListEnds(m) ==
    LET fl == FreeList(m) IN
    /\ Len(fl) = Cardinality(SeqSet(fl))
    /\ Len(fl) <= Len(m.sparse)
    /\ IF fl = << >> THEN m.head = FREELIST_END_IDX
                     ELSE freelistNext(m, Back(fl)) = FREELIST_END_IDX

\* C15 as stated: in every reachable SparseMap state each sparse slot is
\* either live or free and never both, and the free list is acyclic, ends at
\* the end-of-freelist sentinel and holds no slot twice.
C15_LiveOrFree ==
    /\ \A i \in 0..(Len(alloc.sparse) - 1) : Live(alloc, i) # Free(alloc, i)
    /\ FreeListEnds(alloc)

\* C15 amended: each sparse slot is exactly one of live, free, and
\* permanently retired (its version is the disabled sentinel); the free list
\* is acyclic, ends at the end-of-freelist sentinel and holds no slot twice.
C15_LiveFreeOrRetired ==
    /\ \A i \in 0..(Len(alloc.sparse) - 1) :
         /\ Live(alloc, i) \/ Free(alloc, i) \/ Disabled(alloc, i)
         /\ ~(Live(alloc, i) /\ Free(alloc, i))
         /\ ~(Live(alloc, i) /\ Disabled(alloc, i))
         /\ ~(Free(alloc, i) /\ Disabled(alloc, i))
    /\ FreeListEnds(alloc)

\* C15 witness: one slot is live, one is on the free list and one is
\* permanently retired.
C15_Witness ==
    /\ \E i \in 0..(Len(alloc.sparse) - 1) : Live(alloc, i)
    /\ \E i \in 0..(Len(alloc.sparse) - 1) : Free(alloc, i)
    /\ \E i \in 0..(Len(alloc.sparse) - 1) : Disabled(alloc, i)

\* C16: erase(h) of a live key returns true, lowers size() by one, raises
\* the version of slot h.id by one, leaves h absent and every other live key
\* live; erase(h) of a key that is not live (wrong version, index beyond the
\* sparse array, erased before) returns false and changes nothing.
C16_Erase ==
    [][last'.op = "erase" =>
         IF last'.key \in aLive
         THEN /\ last'.res = "true"
              /\ size(alloc') = size(alloc) - 1
              /\ At(alloc'.sparse, last'.key.id).version
                    = At(alloc.sparse, last'.key.id).version + 1
              /\ ~contains(alloc', last'.key)
              /\ \A g \in aLive \ {last'.key} : contains(alloc', g)
         ELSE /\ last'.res = "false"
              /\ alloc' = alloc]_vars

\* C16 witness: erase has just returned true for one key, which is now
\* absent, while two other keys stay live.
C16_Witness ==
    /\ last.op = "erase" /\ last.res = "true"
    /\ ~contains(alloc, last.key)
    /\ Cardinality(aLive) >= 2
    /\ \A g \in aLive : contains(alloc, g)

\* The indices Key reserves: invalid, end of free list, largest sparse size.
Sentinels == {INVALID_IDX, FREELIST_END_IDX, SPARSE_MAX_IDX}

\* C17: insert() returns a slot of the free list, with that slot's version,
\* when the free list is not empty, and otherwise appends a slot of version
\* 0; it throws only when the free list is empty and the sparse array has
\* SPARSE_MAX_IDX entries, and then changes nothing; no key it returns has
\* a sentinel as index.
C17_Insert ==
    [][last'.op = "insert" =>
         IF alloc.head # FREELIST_END_IDX
         THEN /\ last'.res = "ok"
              /\ last'.key.id \in SeqSet(FreeList(alloc))
              /\ last'.key.version = At(alloc.sparse, last'.key.id).version
              /\ Len(alloc'.sparse) = Len(alloc.sparse)
              /\ last'.key.id \notin Sentinels
         ELSE IF Len(alloc.sparse) < SPARSE_MAX_IDX
         THEN /\ last'.res = "ok"
              /\ last'.key = [id |-> Len(alloc.sparse), version |-> 0]
              /\ Len(alloc'.sparse) = Len(alloc.sparse) + 1
              /\ last'.key.id \notin Sentinels
         ELSE /\ last'.res = "throw"
              /\ alloc' = alloc]_vars

\* C17 witness: insert has just thrown with the free list empty and the
\* sparse array full, one of its slots being retired.
C17_Witness ==
    /\ last.op = "insert" /\ last.res = "throw"
    /\ alloc.head = FREELIST_END_IDX
    /\ Len(alloc.sparse) = SPARSE_MAX_IDX
    /\ SomeDisabled

\* C18: whenever insert() returns a slot that was in the sparse array
\* before, its index is the one released last among those not returned since
\* and not permanently retired.
C18_Lifo ==
    [][(last'.op = "insert" /\ last'.res = "ok" /\ last'.key.id < Len(alloc.sparse))
         => (aFreed # << >> /\ last'.key.id = Back(aFreed))]_vars

\* C18 witness: insert has just reused a slot while another released slot
\* is still waiting on the free list.
C18_Witness ==
    /\ last.op = "insert" /\ last.res = "ok"
    /\ \E r \in aRetired : r.id = last.key.id
    /\ aFreed # << >>
    /\ alloc.head # FREELIST_END_IDX


C20_SwapAndPop ==
    [][vlast'.op = "swap_and_pop" =>
         LET v == vecs[vlast'.dst]
             w == vecs'[vlast'.dst]
             p == vlast'.arg
         IN  IF v.count = 0 THEN vlast'.res = "EmptyContainer"
             ELSE IF p >= v.count THEN vlast'.res = "OutOfBounds"
             ELSE /\ vlast'.res = "ok"
                  /\ w.count = v.count - 1
                  /\ Len(w.data) = w.count
                  /\ p < w.count => At(w.data, p) = Back(v.data)
                  /\ \A q \in 0..(w.count - 1) : q # p => At(w.data, q) = At(v.data, q)]_vars

\* C20 witness: swap_and_pop has just taken the first of three elements
\* away: position 0 holds what was last and position 1 is as it was, the
\* two being different.
C20_Witness ==
    /\ vlast.op = "swap_and_pop" /\ vlast.res = "ok" /\ vlast.arg = 0
    /\ vecs[vlast.dst].count = 2
    /\ At(vecs[vlast.dst].data, 0) # At(vecs[vlast.dst].data, 1)

\* C21: resize(n) always returns with count == n and capacity >= n; the
\* first min(old count, n) elements are unchanged, the capacity does not
\* decrease, and resize(n) with n the current count changes nothing.  A call
\* that operator new ends with std::bad_alloc is left aside.
C21_Resize ==
    [][(vlast'.op = "resize" /\ vlast'.res # "bad_alloc") =>
         LET v == vecs[vlast'.dst]
             w == vecs'[vlast'.dst]
             n == vlast'.arg
             keep == IF v.count < n THEN v.count ELSE n
         IN  /\ vlast'.res = "ok"
             /\ w.count = n
             /\ w.cap >= n
             /\ w.cap >= v.cap
             /\ SubSeq(w.data, 1, keep) = SubSeq(v.data, 1, keep)
             /\ n = v.count => w = v]_vars

\* What a typed access reads: a position below the count of the vector
\* it reads from, under the type the vector is bound to.
ReadsElement(v, T, pos) == pos < v.count /\ T = v.typeID

C22_VecAt ==
    vlast.op = "at" =>
        LET v == vecs[vlast.dst] IN
        /\ vlast.arg >= v.count => vlast.res = "OutOfBounds"
        /\ vlast.ty # v.typeID => vlast.res \in {"OutOfBounds", "TypeMismatch"}
        /\ vlast.res = "value" <=> ReadsElement(v, vlast.ty, vlast.arg)

\* No two vectors own the same buffer.
NoSharedBuffer ==
    \A m \in DOMAIN vecs : \A n \in (DOMAIN vecs) \ {m} :
      vecs[m].buf # 0 => vecs[m].buf # vecs[n].buf

\* A copy (construction, or assignment that returned) of src into dst: dst
\* has the count and the elements of src, src is as it was, and the two have
\* no buffer in common.
CopyStep ==
    (vlast'.op \in {"copy_construct", "copy_assign"} /\ vlast'.res = "ok") =>
        LET dst == vlast'.dst
            src == vlast'.src
        IN  /\ vecs'[dst].count = vecs[src].count
            /\ vecs'[dst].data = vecs[src].data
            /\ vecs'[src] = vecs[src]
            /\ vecs'[dst].buf = vecs'[src].buf => vecs'[dst].buf = 0

\* A move (construction, or assignment that returned) of src into dst: dst
\* has the count and the elements src had, and src has count 0 and
\* capacity 0.
MoveStep ==
    (vlast'.op \in {"move_construct", "move_assign"} /\ vlast'.res = "ok") =>
        LET dst == vlast'.dst
            src == vlast'.src
        IN  /\ vecs'[dst].count = vecs[src].count
            /\ vecs'[dst].data = vecs[src].data
            /\ vecs'[src].count = 0
            /\ vecs'[src].cap = 0

\* C23: a copy of a TypeErasedVector has equal count and equal elements and
\* a buffer of its own; a move (construction or assignment between vectors
\* of one type) gives the destination the count and elements of the source
\* and leaves the source with count 0 and capacity 0; in every reachable
\* state no two vectors own the same buffer.
C23_CopyMove == []NoSharedBuffer /\ [][CopyStep /\ MoveStep]_vars

\* C23 witness: a copy assignment between two vectors that both owned a
\* buffer has just returned, leaving two vectors with the same two elements
\* in different buffers.
C23_Witness ==
    /\ vlast.op = "copy_assign" /\ vlast.res = "ok"
    /\ vecs[vlast.dst].count = 2
    /\ vecs[vlast.dst].data = vecs[vlast.src].data
    /\ vecs[vlast.dst].buf # 0 /\ vecs[vlast.src].buf # 0
    /\ vecs[vlast.dst].buf # vecs[vlast.src].buf

\* C24: with checkpoints made and released innermost first and any
\* allocations in between, the release of a checkpoint leaves the allocator
\* with the Block count, and its last Block with the top and the remainder,
\* that they had when the checkpoint was made, and that top points into the
\* Block that is now last.
C24_Release ==
    [][alast'.op = "release" =>
         LET data == Back(cps)
             n    == Len(arena'.mBlocks)
         IN  /\ n = data.vecSize
             /\ Back(arena'.mBlocks).top = data.top
             /\ Back(arena'.mBlocks).remainder = data.remainder
             /\ InBlock(arena', Back(arena'.mBlocks).top, n - 1)]_vars

\* Whether two regions have a byte in common: regions of one storage, since
\* where two storages lie relative to each other is not known.
Overlap(r, q) ==
    /\ r.ptr.gen = q.ptr.gen
    /\ r.ptr.blk = q.ptr.blk
    /\ r.ptr.off < q.ptr.off + q.bytes
    /\ q.ptr.off < r.ptr.off + r.bytes

\* C25: an allocation of fewer bytes than BLOCK_USABLE_SZ returns, for every
\* alignment asked for, after appending at most one Block, and the region it
\* returns lies inside one Block and overlaps none of the regions returned
\* since the last reset or rewind.
C25_Allocate ==
    [][alast'.op = "allocate" =>
         LET q == [ptr |-> alast'.ptr, bytes |-> alast'.bytes] IN
         /\ alast'.res = "ok"
         /\ Len(arena'.mBlocks) <= Len(arena.mBlocks) + 1
         /\ \E i \in 0..(Len(arena'.mBlocks) - 1) :
              InBlock(arena', q.ptr, i) /\ q.ptr.off + q.bytes <= BLOCK_USABLE_SZ
         /\ \A r \in regions : ~Overlap(r, q)]_vars

\* C26: in every reachable state the allocator has at least one Block.
C26_HasBlock == Len(arena.mBlocks) > 0

====
